---- MODULE Spec2Model ----
(***************************************************************************)
(* Model of the Xero quote skill: the quote mapper (validateQuoteData,     *)
(* toQuoteData, calculateTotals, parseCurrency, parseQuantity), the token  *)
(* lifecycle and the gateway of XeroService, the quote script and the      *)
(* OAuth helper.                                                           *)
(*                                                                         *)
(* A JavaScript string is a sequence of one-character strings.  An         *)
(* optional string field is a record [defined, str]; undefined is          *)
(* [defined |-> FALSE, str |-> <<>>].                                      *)
(***************************************************************************)
EXTENDS Integers, Sequences, FiniteSets, TLC

VARIABLES
    data,            \* the ParsedQuoteInput handed to the quote mapper
    today,           \* new Date().toISOString().split('T')[0] during the run
    permuted,        \* data.lineItems in another order
    value,           \* the raw text handed to parseCurrency / parseQuantity
    validation,      \* what validateQuoteData(data) returned
    quoteData,       \* what toQuoteData(data) returned
    quoteData2,      \* what toQuoteData returned for quoteData
    totals,          \* what calculateTotals(data.lineItems) returned
    totalsPermuted,  \* what calculateTotals(permuted) returned
    currency,        \* what parseCurrency(value) did
    quantity,        \* what parseQuantity(value) did
    pc,              \* where the run of the quote script stands
    now,             \* the clock, in seconds
    envTenant,       \* XERO_TENANT_ID of the environment, or "none"
    file,            \* credentials.json
    fileAtStart,     \* credentials.json as the run found it
    service,         \* the XeroService object: its token set and tenant
    refreshCalls,    \* refresh() invocations so far
    createCalls,     \* createQuote() invocations so far
    initialized,     \* what initialize() did
    created,         \* what createQuote(...) did
    sent,            \* what markQuoteAsSent(...) did
    calls,           \* the calls made to the remote API, in order
    contacts,        \* the contacts of the remote organisation
    quotes,          \* the status of each quote of the remote organisation
    env,             \* XERO_CLIENT_ID and XERO_CLIENT_SECRET of the environment
    client,          \* whether the XeroClient of the OAuth helper is built
    server,          \* the callback server of the OAuth helper
    requests,        \* the HTTP requests sent to the callback server
    writes,          \* completed writes of credentials.json by the helper
    netCalls         \* the calls the OAuth helper made to Xero, in order

inputVars == <<data, today, permuted, value>>

mapVars == <<quoteData, quoteData2>>

totalsVars == <<totals, totalsPermuted>>

parseVars == <<currency, quantity>>

gatewayVars == <<created, sent, calls, contacts, quotes>>

authVars == <<env, client, server, requests, writes, netCalls>>

\* what the OAuth helper never touches
outsideAuth == <<inputVars, validation, mapVars, totalsVars, parseVars, now,
                 envTenant, fileAtStart, service, refreshCalls, createCalls,
                 initialized, gatewayVars>>

runVars == <<pc, now, envTenant, file, fileAtStart, service, refreshCalls,
             createCalls, initialized, gatewayVars, authVars>>

vars == <<inputVars, validation, mapVars, totalsVars, parseVars, runVars>>

----------------------------------------------------------------------------
(* JavaScript strings *)

\* WhiteSpace and LineTerminator characters: what String.prototype.trim
\* strips and what \s matches.
WhiteSpace == {" ", "\t", "\n"}

Digits == {"0", "1", "2", "3", "4", "5", "6", "7", "8", "9"}

Undefined == [defined |-> FALSE, str |-> <<>>]

Str(s) == [defined |-> TRUE, str |-> s]

\* !x for an optional string: undefined and "" are falsy.
Falsy(x) == (~x.defined) \/ x.str = <<>>

RECURSIVE TrimStart(_)
TrimStart(s) ==
    IF s # <<>> /\ Head(s) \in WhiteSpace THEN TrimStart(Tail(s)) ELSE s

RECURSIVE TrimEnd(_)
TrimEnd(s) ==
    IF s # <<>> /\ s[Len(s)] \in WhiteSpace
    THEN TrimEnd(SubSeq(s, 1, Len(s) - 1))
    ELSE s

\* A trim that strips one character from each end only.
TrimOnce(s) ==
    LET a == IF s # <<>> /\ Head(s) \in WhiteSpace THEN Tail(s) ELSE s
    IN  IF a # <<>> /\ a[Len(a)] \in WhiteSpace
        THEN SubSeq(a, 1, Len(a) - 1)
        ELSE a

\* String.prototype.trim
Trim(s) == TrimEnd(TrimStart(s))

\* x?.trim()
OptTrim(x) == IF x.defined THEN Str(Trim(x.str)) ELSE Undefined

----------------------------------------------------------------------------
(* JavaScript values of the numeric fields.  A finite number is m * 2^e;   *)
(* NaN has typeof 'number'; a string or undefined has not.                 *)

Num(n) == [t |-> "number", m |-> n, e |-> 0]

Pow2Num(k) == [t |-> "number", m |-> 1, e |-> k]

NaN == [t |-> "NaN", m |-> 0, e |-> 0]

NotANumber == [t |-> "string", m |-> 0, e |-> 0]

TypeOfNumber(v) == v.t \in {"number", "NaN"}

\* v <= 0 and v < 0 on a value of typeof 'number' (false on NaN)
LeqZero(v) == v.t = "number" /\ v.m <= 0

LtZero(v) == v.t = "number" /\ v.m < 0

----------------------------------------------------------------------------
(* validateQuoteData *)

Err(k, text) == [item |-> k, text |-> text]

ContactNameMissingStrict(d) == ~d.contactName.defined

\* !data.contactName || data.contactName.trim() === ''
ContactNameMissing(d) ==
    Falsy(d.contactName) \/ Trim(d.contactName.str) = <<>>

\* !data.lineItems || data.lineItems.length === 0
NoLineItems(d) == (~d.lineItems.defined) \/ Len(d.lineItems.items) = 0

\* !item.description || item.description.trim() === ''
DescriptionMissing(item) ==
    Falsy(item.description) \/ Trim(item.description.str) = <<>>

\* typeof item.quantity !== 'number' || item.quantity <= 0
QuantityInvalid(item) ==
    (~TypeOfNumber(item.quantity)) \/ LeqZero(item.quantity)

UnitAmountInvalidZeroToo(item) ==
    (~TypeOfNumber(item.unitAmount)) \/ LeqZero(item.unitAmount)

\* typeof item.unitAmount !== 'number' || item.unitAmount < 0
UnitAmountInvalid(item) ==
    (~TypeOfNumber(item.unitAmount)) \/ LtZero(item.unitAmount)

\* /^[^\s@]+@[^\s@]+\.[^\s@]+$/.test(s)
EmailRegexTest(s) ==
    \E i \in 1..Len(s) : \E j \in 1..Len(s) :
        /\ s[i] = "@"
        /\ s[j] = "."
        /\ 1 < i /\ i + 1 < j /\ j < Len(s)
        /\ \A k \in 1..Len(s) : k # i => s[k] \notin (WhiteSpace \cup {"@"})

\* /^\d{4}-\d{2}-\d{2}$/.test(s)
DateRegexTest(s) ==
    /\ Len(s) = 10
    /\ \A k \in {1, 2, 3, 4, 6, 7, 9, 10} : s[k] \in Digits
    /\ s[5] = "-"
    /\ s[8] = "-"

NameErrors(d) ==
    IF ContactNameMissing(d)
    THEN <<Err(0, "Contact name is required")>>
    ELSE <<>>

\* Reports the 0-based position itself.
ItemErrorsZeroBased(item, index) ==
    (IF DescriptionMissing(item)
     THEN <<Err(index, "description is required")>>
     ELSE <<>>)
    \o (IF QuantityInvalid(item)
        THEN <<Err(index, "quantity must be a positive number")>>
        ELSE <<>>)
    \o (IF UnitAmountInvalid(item)
        THEN <<Err(index, "unit amount must be a non-negative number")>>
        ELSE <<>>)

\* the body of the forEach callback for the item at 0-based position index
ItemErrors(item, index) ==
    (IF DescriptionMissing(item)
     THEN <<Err(index + 1, "description is required")>>
     ELSE <<>>)
    \o (IF QuantityInvalid(item)
        THEN <<Err(index + 1, "quantity must be a positive number")>>
        ELSE <<>>)
    \o (IF UnitAmountInvalid(item)
        THEN <<Err(index + 1, "unit amount must be a non-negative number")>>
        ELSE <<>>)

\* data.lineItems.forEach over the first n items
RECURSIVE ForEachItemErrors(_, _)
ForEachItemErrors(items, n) ==
    IF n = 0
    THEN <<>>
    ELSE ForEachItemErrors(items, n - 1) \o ItemErrors(items[n], n - 1)

LineItemErrors(d) ==
    IF NoLineItems(d)
    THEN <<Err(0, "At least one line item is required")>>
    ELSE ForEachItemErrors(d.lineItems.items, Len(d.lineItems.items))

EmailErrors(d) ==
    IF (~Falsy(d.contactEmail)) /\ ~EmailRegexTest(d.contactEmail.str)
    THEN <<Err(0, "Invalid email address format")>>
    ELSE <<>>

DateErrors(d) ==
    IF (~Falsy(d.date)) /\ ~DateRegexTest(d.date.str)
    THEN <<Err(0, "Date must be in YYYY-MM-DD format")>>
    ELSE <<>>

\* Stops at the first group of checks that reports something.
CollectErrorsFirstOnly(d) ==
    IF NameErrors(d) # <<>> THEN NameErrors(d)
    ELSE IF LineItemErrors(d) # <<>> THEN LineItemErrors(d)
    ELSE IF EmailErrors(d) # <<>> THEN EmailErrors(d)
    ELSE DateErrors(d)

\* the errors array at the return statement
CollectErrors(d) ==
    NameErrors(d) \o LineItemErrors(d) \o EmailErrors(d) \o DateErrors(d)

validateQuoteData(d) ==
    LET errors == CollectErrors(d)
    IN  [valid |-> Len(errors) = 0, errors |-> errors]

----------------------------------------------------------------------------
(* Results of calls *)

NotRun == [done |-> FALSE]

Returned(r) == [done |-> TRUE, threw |-> FALSE, result |-> r]

Threw(name) == [done |-> TRUE, threw |-> TRUE, error |-> name]

Ok(c) == c.done /\ ~c.threw

\* no text is being parsed
NoValue == [isNumber |-> FALSE, text |-> <<>>, number |-> [nan |-> TRUE, n |-> 0, d |-> 1]]

----------------------------------------------------------------------------
(* Requests handed to validateQuoteData *)

MaxItems == 2

ContactNames ==
    {Undefined, Str(<<>>), Str(<<" ", " ">>), Str(<<"A">>),
     Str(<<" ", "A", "c", " ">>)}

ContactEmails ==
    {Undefined, Str(<<>>), Str(<<"a", "@", "b", ".", "c">>),
     Str(<<"a", "@", "b", "c">>), Str(<<"a", " ", "@", "b", ".", "c">>)}

Dates ==
    {Undefined, Str(<<>>),
     Str(<<"2", "0", "2", "5", "-", "1", "1", "-", "0", "6">>),
     Str(<<"2", "0", "2", "5", "-", "1", "3", "-", "9", "9">>),
     Str(<<"2", "0", "2", "5", "-", "1", "1", "-", "6">>)}

Item(desc, qty, amount, code) ==
    [description |-> desc, quantity |-> qty, unitAmount |-> amount,
     accountCode |-> code]

ValidateItems ==
    {Item(desc, qty, amount, Undefined) :
        desc \in {Str(<<" ">>), Str(<<"A">>)},
        qty \in {Num(0), Num(2)},
        amount \in {Num(-1), Num(0)}}
    \cup {Item(Str(<<"A">>), Num(-1), Num(150), Undefined),
          Item(Undefined, NaN, Num(0), Undefined),
          Item(Str(<<"A">>), NotANumber, NotANumber, Undefined)}

SeqsUpTo(S, n) == UNION {[1..k -> S] : k \in 0..n}

NoItems == [defined |-> FALSE, items |-> <<>>]

Items(seq) == [defined |-> TRUE, items |-> seq]

Request(name, email, items, ref, terms, date) ==
    [contactName |-> name, contactEmail |-> email, lineItems |-> items,
     reference |-> ref, termsAndConditions |-> terms, date |-> date]

ValidateRequests ==
    {Request(name, email, items, Undefined, Undefined, date) :
        name \in ContactNames,
        email \in ContactEmails,
        items \in {NoItems} \cup {Items(s) : s \in SeqsUpTo(ValidateItems, MaxItems)},
        date \in Dates}

Today == <<"2", "0", "2", "6", "-", "1", "1", "-", "0", "6">>

----------------------------------------------------------------------------
(* Specification: validateQuoteData applied to a request *)

\* Before any call has been made.
NothingRun ==
    /\ validation = NotRun
    /\ quoteData = NotRun
    /\ quoteData2 = NotRun
    /\ totals = NotRun
    /\ totalsPermuted = NotRun
    /\ currency = NotRun
    /\ quantity = NotRun

NoFile == [present |-> FALSE]

NoService == [initialized |-> FALSE]

\* the identifiers the remote organisation hands out to new quotes, in order
MaxQuotes == 2

QuoteIds == 1..MaxQuotes

NoQuotes == [q \in QuoteIds |-> "nonexistent"]

\* the HTTP requests that reach the callback server, in order of arrival
MaxRequests == 3

RequestIds == 1..MaxRequests

Unsent ==
    [path |-> "none", code |-> "absent", state |-> "unsent", status |-> 0,
     tenants |-> <<>>]

\* The OAuth helper is not running.
NoAuth ==
    /\ env = [clientId |-> "set", clientSecret |-> "set"]
    /\ client = FALSE
    /\ server = "none"
    /\ requests = [r \in RequestIds |-> Unsent]
    /\ writes = 0
    /\ netCalls = <<>>

\* No run of the quote script is under way.
NoRun ==
    /\ pc = "idle"
    /\ now = 0
    /\ envTenant = "none"
    /\ file = NoFile
    /\ fileAtStart = NoFile
    /\ service = NoService
    /\ refreshCalls = 0
    /\ createCalls = 0
    /\ initialized = NotRun
    /\ created = NotRun
    /\ sent = NotRun
    /\ calls = <<>>
    /\ contacts = <<>>
    /\ quotes = NoQuotes
    /\ NoAuth

InitValidate ==
    /\ data \in ValidateRequests
    /\ today = Today
    /\ permuted = <<>>
    /\ value = NoValue
    /\ NothingRun
    /\ NoRun

Validate ==
    /\ ~validation.done
    /\ validation' = Returned(validateQuoteData(data))
    /\ UNCHANGED <<inputVars, mapVars, totalsVars, parseVars, runVars>>

NextValidate == Validate

SpecValidate == InitValidate /\ [][NextValidate]_vars

----------------------------------------------------------------------------
(* Properties of validateQuoteData *)

NonBlank(x) == x.defined /\ \E k \in 1..Len(x.str) : x.str[k] \notin WhiteSpace

Plain(s) == \A k \in 1..Len(s) : s[k] \notin (WhiteSpace \cup {"@"})

\* local@domain.tld
EmailShape(s) ==
    \E a, b \in 1..Len(s) :
        LET local == SubSeq(s, 1, a - 1)
            domain == SubSeq(s, a + 1, b - 1)
            tld == SubSeq(s, b + 1, Len(s))
        IN  /\ a < b
            /\ s[a] = "@"
            /\ s[b] = "."
            /\ local # <<>> /\ domain # <<>> /\ tld # <<>>
            /\ Plain(local) /\ Plain(domain) /\ Plain(tld)

\* YYYY-MM-DD
DateShape(s) ==
    /\ Len(s) = 10
    /\ SubSeq(s, 1, 4) \in [1..4 -> Digits]
    /\ SubSeq(s, 5, 5) = <<"-">>
    /\ SubSeq(s, 6, 7) \in [1..2 -> Digits]
    /\ SubSeq(s, 8, 8) = <<"-">>
    /\ SubSeq(s, 9, 10) \in [1..2 -> Digits]

ValidItem(item) ==
    /\ NonBlank(item.description)
    /\ item.quantity.t = "number" /\ item.quantity.m > 0
    /\ item.unitAmount.t = "number" /\ item.unitAmount.m >= 0

ValidRequest(d) ==
    /\ NonBlank(d.contactName)
    /\ d.lineItems.defined
    /\ Len(d.lineItems.items) >= 1
    /\ \A k \in 1..Len(d.lineItems.items) : ValidItem(d.lineItems.items[k])
    /\ (d.contactEmail.defined => EmailShape(d.contactEmail.str))
    /\ (d.date.defined => DateShape(d.date.str))

Errors == validation.result.errors

Reported(e) == \E k \in 1..Len(Errors) : Errors[k] = e

\* C1: every valid Quote Request (non-blank name, at least one item, every
\* item with non-blank description, numeric quantity > 0 and numeric unit
\* amount >= 0, email absent or local@domain.tld, date absent or YYYY-MM-DD)
\* validates with valid = TRUE and no errors; and valid is TRUE exactly when
\* the error list is empty.
C1_ValidRequestsPass ==
    Ok(validation) =>
        /\ ValidRequest(data) =>
              validation.result.valid /\ validation.result.errors = <<>>
        /\ validation.result.valid <=> (validation.result.errors = <<>>)

C1_Witness ==
    /\ Ok(validation)
    /\ ValidRequest(data)
    /\ data.contactEmail.defined
    /\ data.date.defined
    /\ Len(data.lineItems.items) = 2
    /\ \E k \in 1..2 : data.lineItems.items[k].unitAmount = Num(0)

\* C2: when the contact name is missing (absent, empty or only whitespace)
\* the error list holds exactly one 'Contact name is required' entry,
\* whatever the line items, email and date are.
C2_MissingNameReportedOnce ==
    (Ok(validation) /\ ~NonBlank(data.contactName)) =>
        Cardinality({k \in 1..Len(Errors) :
                        Errors[k] = Err(0, "Contact name is required")}) = 1

C2_Witness ==
    /\ Ok(validation)
    /\ data.contactName = Str(<<" ", " ">>)
    /\ Len(Errors) > 2
    /\ Reported(Err(0, "Contact name is required"))

\* C3: a line item at 0-based index i whose quantity is <= 0 gets the error
\* 'Line item <i+1>: quantity must be a positive number', and a position
\* whose quantity is a number > 0 gets no quantity error.
C3_QuantityErrorIndexed ==
    (Ok(validation) /\ data.lineItems.defined) =>
        \A i \in 0..(Len(data.lineItems.items) - 1) :
            LET q == data.lineItems.items[i + 1].quantity
                e == Err(i + 1, "quantity must be a positive number")
            IN  /\ (q.t = "number" /\ q.m <= 0) => Reported(e)
                /\ (q.t = "number" /\ q.m > 0) => ~Reported(e)

C3_Witness ==
    /\ Ok(validation)
    /\ data.lineItems.defined
    /\ Len(data.lineItems.items) = 2
    /\ data.lineItems.items[1].quantity = Num(2)
    /\ data.lineItems.items[2].quantity = Num(0)
    /\ Reported(Err(2, "quantity must be a positive number"))
    /\ ~Reported(Err(1, "quantity must be a positive number"))

\* The errors whose check fails on d, check by check.
Applicable(d) ==
    {e \in {Err(0, "Contact name is required")} : ContactNameMissing(d)}
    \cup {e \in {Err(0, "At least one line item is required")} : NoLineItems(d)}
    \cup (IF NoLineItems(d) THEN {} ELSE
          UNION {
            {e \in {Err(k, "description is required")} :
                DescriptionMissing(d.lineItems.items[k])}
            \cup {e \in {Err(k, "quantity must be a positive number")} :
                QuantityInvalid(d.lineItems.items[k])}
            \cup {e \in {Err(k, "unit amount must be a non-negative number")} :
                UnitAmountInvalid(d.lineItems.items[k])}
            : k \in 1..Len(d.lineItems.items)})
    \cup {e \in {Err(0, "Invalid email address format")} :
            (~Falsy(d.contactEmail)) /\ ~EmailRegexTest(d.contactEmail.str)}
    \cup {e \in {Err(0, "Date must be in YYYY-MM-DD format")} :
            (~Falsy(d.date)) /\ ~DateRegexTest(d.date.str)}

\* Place of an error in the documented order: name, line items (the single
\* 'at least one' error, or per item description, quantity, unit amount),
\* email, date.
Rank(e) ==
    CASE e.text = "Contact name is required" -> <<0, 0, 0>>
      [] e.text = "At least one line item is required" -> <<1, 0, 0>>
      [] e.text = "description is required" -> <<1, e.item, 1>>
      [] e.text = "quantity must be a positive number" -> <<1, e.item, 2>>
      [] e.text = "unit amount must be a non-negative number" -> <<1, e.item, 3>>
      [] e.text = "Invalid email address format" -> <<2, 0, 0>>
      [] e.text = "Date must be in YYYY-MM-DD format" -> <<3, 0, 0>>

Before(r1, r2) ==
    \/ r1[1] < r2[1]
    \/ r1[1] = r2[1] /\ r1[2] < r2[2]
    \/ r1[1] = r2[1] /\ r1[2] = r2[2] /\ r1[3] < r2[3]

\* C4: validateQuoteData does not throw and does not stop at the first
\* problem: the list it returns holds every error whose check fails, once,
\* in the order name, line items (in item order: description, quantity,
\* unit amount), email, date.
C4_AllErrorsInOrder ==
    validation.done =>
        /\ ~validation.threw
        /\ {Errors[k] : k \in 1..Len(Errors)} = Applicable(data)
        /\ \A k, l \in 1..Len(Errors) :
              k < l => Before(Rank(Errors[k]), Rank(Errors[l]))

C4_Witness ==
    /\ Ok(validation)
    /\ Reported(Err(0, "Contact name is required"))
    /\ Reported(Err(1, "description is required"))
    /\ Reported(Err(2, "quantity must be a positive number"))
    /\ Reported(Err(2, "unit amount must be a non-negative number"))
    /\ Reported(Err(0, "Invalid email address format"))
    /\ Reported(Err(0, "Date must be in YYYY-MM-DD format"))
    /\ Len(Errors) >= 6

----------------------------------------------------------------------------
(* toQuoteData *)

\* '200', the default sales account
SalesAccountCode == <<"2", "0", "0">>

DefaultAccountCodeWhenUndefined(item) ==
    IF item.accountCode.defined THEN item.accountCode ELSE Str(SalesAccountCode)

\* item.accountCode || '200'
DefaultAccountCode(item) ==
    IF Falsy(item.accountCode) THEN Str(SalesAccountCode) ELSE item.accountCode

\* input.date || new Date().toISOString().split('T')[0]
DefaultDate(input, day) ==
    IF Falsy(input.date) THEN Str(day) ELSE input.date

\* the callback of input.lineItems.map
MapItem(item) ==
    [description |-> Str(Trim(item.description.str)),
     quantity |-> item.quantity,
     unitAmount |-> item.unitAmount,
     accountCode |-> DefaultAccountCode(item)]

\* Calling .trim() or .map() on undefined throws a TypeError.
ToQuoteDataThrows(input) ==
    \/ ~input.contactName.defined
    \/ ~input.lineItems.defined
    \/ \E k \in 1..Len(input.lineItems.items) :
          ~input.lineItems.items[k].description.defined

toQuoteData(input, day) ==
    IF ToQuoteDataThrows(input)
    THEN Threw("TypeError")
    ELSE Returned(
        [contactName |-> Str(Trim(input.contactName.str)),
         contactEmail |-> OptTrim(input.contactEmail),
         lineItems |-> Items([k \in 1..Len(input.lineItems.items) |->
                                 MapItem(input.lineItems.items[k])]),
         reference |-> OptTrim(input.reference),
         termsAndConditions |-> OptTrim(input.termsAndConditions),
         date |-> DefaultDate(input, day)])

----------------------------------------------------------------------------
(* Requests handed to toQuoteData *)

MaxMapItems == 2

AcmeRequest ==
    Request(Str(<<"A", "c", "m", "e", " ", "L", "t", "d">>), Undefined,
            Items(<<Item(Str(<<"C", "o", "n", "s", "u", "l", "t", "i", "n", "g">>),
                         Num(5), Num(150), Undefined),
                    Item(Str(<<"T", "r", "a", "v", "e", "l">>),
                         Num(2), Num(75), Undefined)>>),
            Undefined, Undefined, Undefined)

Tomorrow == <<"2", "0", "2", "6", "-", "1", "1", "-", "0", "7">>

MapNames ==
    {Undefined, Str(<<"A">>), Str(<<" ", " ">>),
     Str(<<" ", " ", "A", " ", "c", " ", " ">>)}

MapEmails ==
    {Undefined, Str(<<>>), Str(<<" ", "a", "@", "b", ".", "c", " ">>)}

AccountCodes ==
    {Undefined, Str(<<>>), Str(<<"4", "0", "0">>),
     Str(<<" ", "4", "0", "0", " ">>)}

MapItems ==
    {Item(desc, Num(5), Num(150), code) :
        desc \in {Str(<<"A">>), Str(<<" ", " ", "A", " ">>)},
        code \in AccountCodes}
    \cup {Item(Str(<<"B">>), Num(2), Num(75), Undefined),
          Item(Undefined, Num(1), Num(0), Undefined)}

MapDates ==
    {Undefined, Str(<<>>),
     Str(<<"2", "0", "2", "5", "-", "1", "1", "-", "0", "6">>),
     Str(<<" ", "2", "0", "2", "5", "-", "1", "1", "-", "0", "6">>)}

MapRequests ==
    {Request(name, email, items, ref, terms, date) :
        name \in MapNames,
        email \in MapEmails,
        items \in {NoItems} \cup {Items(s) : s \in SeqsUpTo(MapItems, MaxMapItems)},
        ref \in {Undefined, Str(<<" ", "R", " ">>)},
        terms \in {Undefined, Str(<<"T", " ", " ">>)},
        date \in MapDates}
    \cup {AcmeRequest}

----------------------------------------------------------------------------
(* Specification: toQuoteData applied to a request, then to its own output *)

InitMap ==
    /\ data \in MapRequests
    /\ today \in {Today, Tomorrow}
    /\ permuted = <<>>
    /\ value = NoValue
    /\ NothingRun
    /\ NoRun

ToQuoteData ==
    /\ ~quoteData.done
    /\ quoteData' = toQuoteData(data, today)
    /\ UNCHANGED <<inputVars, validation, quoteData2, totalsVars, parseVars, runVars>>

ToQuoteDataAgain ==
    /\ Ok(quoteData)
    /\ ~quoteData2.done
    /\ quoteData2' = toQuoteData(quoteData.result, today)
    /\ UNCHANGED <<inputVars, validation, quoteData, totalsVars, parseVars, runVars>>

NextMap == ToQuoteData \/ ToQuoteDataAgain

SpecMap == InitMap /\ [][NextMap]_vars

----------------------------------------------------------------------------
(* Properties of toQuoteData *)

InItems == data.lineItems.items

OutItems == quoteData.result.lineItems.items

\* The fields that toQuoteData trims or copies in any reading of C7.
TrimmedAndCopied ==
    /\ quoteData.result.contactName = Str(Trim(data.contactName.str))
    /\ quoteData.result.contactEmail = OptTrim(data.contactEmail)
    /\ quoteData.result.reference = OptTrim(data.reference)
    /\ quoteData.result.termsAndConditions = OptTrim(data.termsAndConditions)
    /\ Len(OutItems) = Len(InItems)
    /\ \A k \in 1..Len(InItems) :
          /\ OutItems[k].description = Str(Trim(InItems[k].description.str))
          /\ OutItems[k].quantity = InItems[k].quantity
          /\ OutItems[k].unitAmount = InItems[k].unitAmount

AcmeExample ==
    data = AcmeRequest =>
        /\ \A k \in 1..2 : OutItems[k].accountCode = Str(SalesAccountCode)
        /\ quoteData.result.date = Str(today)

\* C7 as stated: every string field is trimmed, the account code and the
\* date included; an item without account code gets "200" and a request
\* without date gets the current day.
C7_TrimsEveryStringField ==
    Ok(quoteData) =>
        /\ TrimmedAndCopied
        /\ \A k \in 1..Len(InItems) :
              OutItems[k].accountCode =
                 IF Trim(InItems[k].accountCode.str) = <<>>
                 THEN Str(SalesAccountCode)
                 ELSE Str(Trim(InItems[k].accountCode.str))
        /\ quoteData.result.date =
              IF Trim(data.date.str) = <<>>
              THEN Str(today)
              ELSE Str(Trim(data.date.str))
        /\ AcmeExample

\* C7 amended: for a request of the declared type (contact name, line items
\* and descriptions present) toQuoteData trims the contact name, the email,
\* every description, the reference and the terms; an account code or a date that
\* is absent or empty becomes "200" or the current day, and any other
\* account code or date is passed on as given, untrimmed; quantities, unit
\* amounts and the order of the items are unchanged; the Acme request gets
\* "200" on both items and today's date.
C7_TrimsAndDefaults ==
    Ok(quoteData) =>
        /\ TrimmedAndCopied
        /\ \A k \in 1..Len(InItems) :
              OutItems[k].accountCode =
                 IF (~InItems[k].accountCode.defined) \/ InItems[k].accountCode.str = <<>>
                 THEN Str(SalesAccountCode)
                 ELSE InItems[k].accountCode
        /\ quoteData.result.date =
              IF (~data.date.defined) \/ data.date.str = <<>>
              THEN Str(today)
              ELSE data.date
        /\ AcmeExample

C7_Witness ==
    /\ Ok(quoteData)
    /\ Len(OutItems) = 2
    /\ ~InItems[1].accountCode.defined
    /\ OutItems[1].accountCode = Str(SalesAccountCode)
    /\ InItems[2].accountCode = Str(<<" ", "4", "0", "0", " ">>)
    /\ OutItems[2].accountCode = Str(<<" ", "4", "0", "0", " ">>)
    /\ OutItems[2].description # InItems[2].description
    /\ quoteData.result.contactName # data.contactName
    /\ ~data.date.defined
    /\ quoteData.result.date = Str(today)

\* C8: toQuoteData is idempotent: applied to its own output, with the
\* current day unchanged, it returns that output again, field for field.
C8_Idempotent ==
    Ok(quoteData2) => quoteData2.result = quoteData.result

C8_Witness ==
    /\ Ok(quoteData2)
    /\ quoteData.result.contactName # data.contactName
    /\ ~data.date.defined
    /\ Len(InItems) = 2
    /\ ~InItems[1].accountCode.defined
    /\ InItems[2].accountCode = Str(<<" ", "4", "0", "0", " ">>)

----------------------------------------------------------------------------
(* Number arithmetic of calculateTotals.  The quantities and unit amounts  *)
(* handed to it here are non-negative integers m * 2^e; a Number is an     *)
(* IEEE-754 double, so a sum or product is the exact result rounded to     *)
(* 53 significant bits, ties to even.  An integer is a sequence of bits,   *)
(* least significant first, <<>> for 0.                                    *)

\* significant bits of a double
MantissaBits == 53

RECURSIVE FromNat(_)
FromNat(n) == IF n = 0 THEN <<>> ELSE <<n % 2>> \o FromNat(n \div 2)

ShiftLeft(b, k) == IF b = <<>> THEN <<>> ELSE [i \in 1..k |-> 0] \o b

Bit(b, i) == IF i <= Len(b) THEN b[i] ELSE 0

RECURSIVE AddCarry(_, _, _)
AddCarry(a, b, c) ==
    IF a = <<>> /\ b = <<>>
    THEN (IF c = 1 THEN <<1>> ELSE <<>>)
    ELSE LET t == Bit(a, 1) + Bit(b, 1) + c
         IN  <<t % 2>> \o AddCarry(IF a = <<>> THEN <<>> ELSE Tail(a),
                                   IF b = <<>> THEN <<>> ELSE Tail(b),
                                   t \div 2)

\* the exact sum
ExactAdd(a, b) == AddCarry(a, b, 0)

\* the exact product
RECURSIVE ExactMul(_, _)
ExactMul(a, b) ==
    IF a = <<>> \/ b = <<>>
    THEN <<>>
    ELSE IF Head(a) = 1
         THEN ExactAdd(b, ShiftLeft(ExactMul(Tail(a), b), 1))
         ELSE ShiftLeft(ExactMul(Tail(a), b), 1)

\* the nearest double, ties to even
RoundToDouble(x) ==
    IF Len(x) <= MantissaBits
    THEN x
    ELSE LET drop == Len(x) - MantissaBits
             kept == SubSeq(x, drop + 1, Len(x))
             half == x[drop] = 1
             sticky == \E i \in 1..(drop - 1) : x[i] = 1
             up == half /\ (sticky \/ kept[1] = 1)
         IN  ShiftLeft(IF up THEN ExactAdd(kept, <<1>>) ELSE kept, drop)

\* a + b and a * b on Numbers
NumberAdd(a, b) == RoundToDouble(ExactAdd(a, b))

NumberMul(a, b) == RoundToDouble(ExactMul(a, b))

\* the Number held by a numeric field
ToNumber(v) == ShiftLeft(FromNat(v.m), v.e)

----------------------------------------------------------------------------
(* calculateTotals *)

\* (sum, item) => sum + item.quantity * item.unitAmount
AddLineTotal(sum, item) ==
    NumberAdd(sum, NumberMul(ToNumber(item.quantity), ToNumber(item.unitAmount)))

AddQuantityKeepLast(sum, item) == ToNumber(item.quantity)

\* (sum, item) => sum + item.quantity
AddQuantity(sum, item) == NumberAdd(sum, ToNumber(item.quantity))

\* lineItems.reduce(f, 0) over the first n items
RECURSIVE ReduceLineTotal(_, _)
ReduceLineTotal(lineItems, n) ==
    IF n = 0
    THEN <<>>
    ELSE AddLineTotal(ReduceLineTotal(lineItems, n - 1), lineItems[n])

RECURSIVE ReduceQuantity(_, _)
ReduceQuantity(lineItems, n) ==
    IF n = 0
    THEN <<>>
    ELSE AddQuantity(ReduceQuantity(lineItems, n - 1), lineItems[n])

calculateTotals(lineItems) ==
    [subtotal |-> ReduceLineTotal(lineItems, Len(lineItems)),
     lineItemCount |-> Len(lineItems),
     totalQuantity |-> ReduceQuantity(lineItems, Len(lineItems))]

----------------------------------------------------------------------------
(* Line items handed to calculateTotals *)

MaxTotalItems == 3

\* 2^53, the first double whose successor is 2 away
LargeAmount == Pow2Num(MantissaBits)

TotalItems ==
    {Item(Str(<<"A">>), Num(5), Num(150), Undefined),
     Item(Str(<<"B">>), Num(2), Num(75), Undefined),
     Item(Str(<<"C">>), Num(1), Num(1), Undefined),
     Item(Str(<<"D">>), Num(3), Num(0), Undefined),
     Item(Str(<<"E">>), Num(1), LargeAmount, Undefined),
     Item(Str(<<"F">>), LargeAmount, Num(0), Undefined)}

IndexPermutations(n) == {p \in [1..n -> 1..n] : \A i, j \in 1..n : p[i] = p[j] => i = j}

Permute(seq, p) == [k \in 1..Len(seq) |-> seq[p[k]]]

----------------------------------------------------------------------------
(* Specification: calculateTotals applied to a list and to a permutation   *)
(* of it                                                                   *)

InitTotals ==
    /\ \E seq \in SeqsUpTo(TotalItems, MaxTotalItems) :
          /\ data = Request(Str(<<"A">>), Undefined, Items(seq),
                            Undefined, Undefined, Undefined)
          /\ \E p \in IndexPermutations(Len(seq)) : permuted = Permute(seq, p)
    /\ today = Today
    /\ value = NoValue
    /\ NothingRun
    /\ NoRun

CalculateTotals ==
    /\ ~totals.done
    /\ totals' = Returned(calculateTotals(data.lineItems.items))
    /\ UNCHANGED <<inputVars, validation, mapVars, totalsPermuted, parseVars, runVars>>

CalculateTotalsPermuted ==
    /\ ~totalsPermuted.done
    /\ totalsPermuted' = Returned(calculateTotals(permuted))
    /\ UNCHANGED <<inputVars, validation, mapVars, totals, parseVars, runVars>>

NextTotals == CalculateTotals \/ CalculateTotalsPermuted

SpecTotals == InitTotals /\ [][NextTotals]_vars

----------------------------------------------------------------------------
(* Properties of calculateTotals *)

RECURSIVE ExactSum(_, _)
ExactSum(lineItems, n) ==
    IF n = 0
    THEN <<>>
    ELSE ExactAdd(ExactSum(lineItems, n - 1),
                  ExactMul(ToNumber(lineItems[n].quantity),
                           ToNumber(lineItems[n].unitAmount)))

RECURSIVE ExactQuantitySum(_, _)
ExactQuantitySum(lineItems, n) ==
    IF n = 0
    THEN <<>>
    ELSE ExactAdd(ExactQuantitySum(lineItems, n - 1),
                  ToNumber(lineItems[n].quantity))

IsAcmeItems(seq) ==
    /\ Len(seq) = 2
    /\ {<<seq[k].quantity, seq[k].unitAmount>> : k \in 1..2}
          = {<<Num(5), Num(150)>>, <<Num(2), Num(75)>>}

AcmeTotals ==
    /\ IsAcmeItems(data.lineItems.items) =>
          /\ totals.result.subtotal = FromNat(900)
          /\ totals.result.lineItemCount = 2
          /\ totals.result.totalQuantity = FromNat(7)
    /\ IsAcmeItems(permuted) =>
          /\ totalsPermuted.result.subtotal = FromNat(900)
          /\ totalsPermuted.result.lineItemCount = 2
          /\ totalsPermuted.result.totalQuantity = FromNat(7)

\* C9 as stated: for every sequence of line items and every permutation of
\* it, subtotal, lineItemCount and totalQuantity are the same.
C9_OrderIndependent ==
    (Ok(totals) /\ Ok(totalsPermuted)) =>
        /\ totalsPermuted.result.subtotal = totals.result.subtotal
        /\ totalsPermuted.result.lineItemCount = totals.result.lineItemCount
        /\ totalsPermuted.result.totalQuantity = totals.result.totalQuantity
        /\ AcmeTotals

\* C9 amended: for every sequence of line items with non-negative integer
\* quantities and unit amounts and every permutation of it, lineItemCount is
\* the same; subtotal is the same whenever the exact sum of the line totals
\* is below 2^53, and totalQuantity whenever the exact sum of the quantities
\* is below 2^53 (no addition rounds); for (5 x 150) and (2 x 75) they are
\* 900, 2 and 7 in either order.
C9_OrderIndependentWhenExact ==
    (Ok(totals) /\ Ok(totalsPermuted)) =>
        LET items == data.lineItems.items
        IN  /\ totalsPermuted.result.lineItemCount = totals.result.lineItemCount
            /\ Len(ExactSum(items, Len(items))) <= MantissaBits =>
                  totalsPermuted.result.subtotal = totals.result.subtotal
            /\ Len(ExactQuantitySum(items, Len(items))) <= MantissaBits =>
                  totalsPermuted.result.totalQuantity = totals.result.totalQuantity
            /\ AcmeTotals

C9_Witness ==
    /\ Ok(totals)
    /\ Ok(totalsPermuted)
    /\ Len(permuted) = 3
    /\ permuted # data.lineItems.items
    /\ \A k \in 1..3 : data.lineItems.items[k].unitAmount.m > 0
    /\ \A k \in 1..3 : data.lineItems.items[k].unitAmount # LargeAmount
    /\ totals.result.subtotal = totalsPermuted.result.subtotal
    /\ totals.result.subtotal # <<>>

----------------------------------------------------------------------------
(* Numbers read from text.  parseFloat's result is held as the exact       *)
(* decimal it read, a fraction n/d in lowest terms, or as NaN; the texts   *)
(* handed in are short and never spell Infinity.                           *)

RECURSIVE GCD(_, _)
GCD(a, b) == IF b = 0 THEN a ELSE GCD(b, a % b)

Abs(n) == IF n < 0 THEN -n ELSE n

Rat(n, d) ==
    LET g == GCD(Abs(n), Abs(d))
        sgn == IF d < 0 THEN -1 ELSE 1
    IN  [nan |-> FALSE, n |-> sgn * (n \div g), d |-> sgn * (d \div g)]

NotNumeric == [nan |-> TRUE, n |-> 0, d |-> 1]

RECURSIVE Pow10(_)
Pow10(k) == IF k = 0 THEN 1 ELSE 10 * Pow10(k - 1)

DigitValue(c) ==
    CHOOSE k \in 0..9 : <<"0", "1", "2", "3", "4", "5", "6", "7", "8", "9">>[k + 1] = c

\* the length of the run of digits that s starts with
RECURSIVE DigitRun(_)
DigitRun(s) ==
    IF s # <<>> /\ Head(s) \in Digits THEN 1 + DigitRun(Tail(s)) ELSE 0

\* the value of a sequence of digits
RECURSIVE DigitsValue(_)
DigitsValue(s) ==
    IF s = <<>>
    THEN 0
    ELSE 10 * DigitsValue(SubSeq(s, 1, Len(s) - 1)) + DigitValue(s[Len(s)])

Drop(s, k) == SubSeq(s, k + 1, Len(s))

\* The longest prefix of s (after leading white space) that is a
\* StrDecimalLiteral: [+-] digits [. digits] [e [+-] digits].  The record
\* holds what was read and how many characters of s it took.
ScanFloat(s) ==
    LET t == TrimStart(s)
        lead == Len(s) - Len(t)
        signLen == IF t # <<>> /\ Head(t) \in {"+", "-"} THEN 1 ELSE 0
        negative == signLen = 1 /\ Head(t) = "-"
        a == Drop(t, signLen)
        intLen == DigitRun(a)
        b == Drop(a, intLen)
        hasDot == b # <<>> /\ Head(b) = "."
        fracLen == IF hasDot THEN DigitRun(Tail(b)) ELSE 0
        dotLen == IF hasDot /\ (intLen + fracLen > 0) THEN 1 + fracLen ELSE 0
        c == Drop(b, dotLen)
        hasExp == c # <<>> /\ Head(c) \in {"e", "E"}
        expSignLen ==
            IF hasExp /\ Len(c) >= 2 /\ c[2] \in {"+", "-"} THEN 1 ELSE 0
        expDigits == IF hasExp THEN DigitRun(Drop(c, 1 + expSignLen)) ELSE 0
        expLen == IF expDigits > 0 THEN 1 + expSignLen + expDigits ELSE 0
        expValue == DigitsValue(SubSeq(c, 2 + expSignLen, expLen))
        expNegative == expSignLen = 1 /\ c[2] = "-"
        mantissa ==
            DigitsValue(SubSeq(a, 1, intLen)) * Pow10(fracLen)
            + DigitsValue(SubSeq(b, 2, 1 + fracLen))
        signed == IF negative THEN -mantissa ELSE mantissa
    IN  IF intLen + fracLen = 0
        THEN [number |-> NotNumeric, taken |-> 0]
        ELSE [number |->
                 IF expLen > 0 /\ ~expNegative
                 THEN Rat(signed * Pow10(expValue), Pow10(fracLen))
                 ELSE IF expLen > 0
                      THEN Rat(signed, Pow10(fracLen) * Pow10(expValue))
                      ELSE Rat(signed, Pow10(fracLen)),
              taken |-> lead + signLen + intLen + dotLen + expLen]

parseFloat(s) == ScanFloat(s).number

\* numerator / denominator, the denominator not 0
Divide(x, y) == Rat(x.n * y.d, x.d * y.n)

----------------------------------------------------------------------------
(* parseCurrency and parseQuantity *)

Text(s) == [isNumber |-> FALSE, text |-> s, number |-> NotNumeric]

Number(r) == [isNumber |-> TRUE, text |-> <<>>, number |-> r]

\* s.replace(/[chars]/g, '')
RECURSIVE RemoveAll(_, _)
RemoveAll(s, chars) ==
    IF s = <<>>
    THEN <<>>
    ELSE IF Head(s) \in chars
         THEN RemoveAll(Tail(s), chars)
         ELSE <<Head(s)>> \o RemoveAll(Tail(s), chars)

\* the characters of /[$€,]/
StrippedCharacters == {"$", "€", ","}

parseCurrency(v) ==
    IF v.isNumber
    THEN Returned(v.number)
    ELSE LET cleaned == Trim(RemoveAll(v.text, StrippedCharacters))
             parsed == parseFloat(cleaned)
         IN  IF parsed.nan
             THEN Threw("Invalid currency format")
             ELSE Returned(parsed)

\* s.split(sep)
RECURSIVE Split(_, _)
Split(s, sep) ==
    IF \A k \in 1..Len(s) : s[k] # sep
    THEN <<s>>
    ELSE LET i == CHOOSE k \in 1..Len(s) :
                     s[k] = sep /\ \A j \in 1..(k - 1) : s[j] # sep
         IN  <<SubSeq(s, 1, i - 1)>> \o Split(Drop(s, i), sep)

parseQuantity(v) ==
    IF v.isNumber
    THEN Returned(v.number)
    ELSE IF \E k \in 1..Len(v.text) : v.text[k] = "/"
         THEN LET parts == Split(v.text, "/")
                  numerator == parseFloat(Trim(parts[1]))
                  denominator == parseFloat(Trim(parts[2]))
              IN  IF numerator.nan \/ denominator.nan \/ denominator.n = 0
                  THEN Threw("Invalid fraction format")
                  ELSE Returned(Divide(numerator, denominator))
         ELSE LET parsed == parseFloat(Trim(v.text))
              IN  IF parsed.nan \/ parsed.n <= 0
                  THEN Threw("Invalid quantity")
                  ELSE Returned(parsed)

----------------------------------------------------------------------------
(* Texts handed to parseCurrency and parseQuantity *)

MaxTextLen == 3

TextCharacters == {"$", "£", ",", "1", "0", ".", "-", "/", " ", "x"}

SampleTexts ==
    {<<"$", "1", ",", "5", "0", "0", ".", "0", "0">>,
     <<"£", "5", "0", ".", "0", "0">>,
     <<"€", "2", "5", ".", "9", "9">>,
     <<"n", "o", "t", "-", "a", "-", "n", "u", "m", "b", "e", "r">>,
     <<"1", "2", "a", "b", "c">>,
     <<"1", "e", "2">>,
     <<"2", ".", "5">>,
     <<"3", "/", "0">>,
     <<" ", "1", " ", "/", " ", "2", " ">>,
     <<"1", "/", "2", "/", "0">>}

Values ==
    {Text(s) : s \in SeqsUpTo(TextCharacters, MaxTextLen) \cup SampleTexts}
    \cup {Number(Rat(5, 1)), Number(Rat(-1, 2)), Number(Rat(0, 1))}

----------------------------------------------------------------------------
(* Specification: parseCurrency and parseQuantity applied to a value *)

InitParse ==
    /\ value \in Values
    /\ data = AcmeRequest
    /\ today = Today
    /\ permuted = <<>>
    /\ NothingRun
    /\ NoRun

ParseCurrency ==
    /\ ~currency.done
    /\ currency' = parseCurrency(value)
    /\ UNCHANGED <<inputVars, validation, mapVars, totalsVars, quantity, runVars>>

ParseQuantity ==
    /\ ~quantity.done
    /\ quantity' = parseQuantity(value)
    /\ UNCHANGED <<inputVars, validation, mapVars, totalsVars, currency, runVars>>

NextParse == ParseCurrency \/ ParseQuantity

SpecParse == InitParse /\ [][NextParse]_vars

----------------------------------------------------------------------------
(* Properties of parseCurrency and parseQuantity *)

\* the whole of s is one decimal number
EntirelyNumeric(s) ==
    /\ s # <<>>
    /\ ~ScanFloat(s).number.nan
    /\ ScanFloat(s).taken = Len(s)

\* what the documentation says is stripped: the currency symbols and the
\* thousands separator
DocumentedSymbols == {"£", "$", "€", ","}

\* C5: parseCurrency applied to a string strips the currency symbols
\* (£, $, €) and the thousands separators and returns the rest parsed as a
\* decimal number ("$1,500.00" gives 1500, "£50.00" gives 50); it fails
\* with a format error whenever the rest is not entirely numeric.
C5_ParseCurrencyAsDocumented ==
    (currency.done /\ ~value.isNumber) =>
        LET rest == Trim(RemoveAll(value.text, DocumentedSymbols))
        IN  IF EntirelyNumeric(rest)
            THEN Ok(currency) /\ currency.result = ScanFloat(rest).number
            ELSE currency.threw

\* C6: parseQuantity applied to a string accepts a plain decimal or a
\* fraction "a/b" ("1/2" gives 0.5); it fails when a part is not numeric,
\* when the denominator is zero ("3/0") and whenever the quantity is not
\* positive, in the fraction form as in the plain form; so every value it
\* returns for a string is > 0.
C6_ParseQuantityPositive ==
    (quantity.done /\ ~value.isNumber) =>
        LET parts == Split(value.text, "/")
        IN  /\ Ok(quantity) =>
                  /\ quantity.result.n > 0
                  /\ \A k \in 1..Len(parts) : EntirelyNumeric(Trim(parts[k]))
            /\ value.text = <<"1", "/", "2">> =>
                  Ok(quantity) /\ quantity.result = Rat(1, 2)
            /\ value.text = <<"3", "/", "0">> => quantity.threw

----------------------------------------------------------------------------
(* The token lifecycle of XeroService: initialize() and refresh().  Times  *)
(* are in seconds.                                                         *)

\* the safety margin of the expiry check: 5 minutes
RefreshMargin == 300

\* the lifetime of an access token: 30 minutes
TokenLifetime == 1800

Credentials(access, refreshToken, expiry, tenant, updated) ==
    [accessToken |-> access, refreshToken |-> refreshToken, expiry |-> expiry,
     tenantId |-> tenant, updatedAt |-> updated]

StoredFile(c) == [present |-> TRUE, credentials |-> c]

\* load(): NotFound when the file is absent
LoadCredentials(f) ==
    IF f.present THEN Returned(f.credentials) ELSE Threw("NotFound")

\* now >= expiry - 5 minutes
NeedsRefresh(c, t) == t >= c.expiry - RefreshMargin

\* refresh(): the remote endpoint answers with a new token pair, or fails
refresh(c, t, remoteOk) ==
    IF remoteOk
    THEN Returned(Credentials("access-2", "refresh-2", t + TokenLifetime,
                              c.tenantId, t))
    ELSE Threw("AuthError")

\* initialize(): what it returns or throws, the file and the service it
\* leaves, and the refresh() invocations it made
initialize(f, tenant, t, remoteOk) ==
    LET loaded == LoadCredentials(f)
        c == loaded.result
        adopted == IF tenant = "none" THEN c.tenantId ELSE tenant
        refreshed == refresh(c, t, remoteOk)
    IN  IF loaded.threw
        THEN [outcome |-> Threw("NotFound"), file |-> f,
              service |-> NoService, refreshes |-> 0]
        ELSE IF ~NeedsRefresh(c, t)
        THEN [outcome |-> Returned("initialized"), file |-> f,
              service |-> [initialized |-> TRUE, tokenSet |-> c,
                           tenantId |-> adopted],
              refreshes |-> 0]
        ELSE IF refreshed.threw
        THEN [outcome |-> Threw("AuthError"), file |-> f,
              service |-> NoService, refreshes |-> 1]
        ELSE [outcome |-> Returned("initialized"),
              file |-> StoredFile(refreshed.result),
              service |-> [initialized |-> TRUE, tokenSet |-> refreshed.result,
                           tenantId |-> adopted],
              refreshes |-> 1]

----------------------------------------------------------------------------
(* The gateway of XeroService: findContact, createContact, createQuote and *)
(* markQuoteAsSent.  Each wraps one remote call; the remote organisation   *)
(* answers each call or fails it.                                          *)

\* a call to the remote API and the access token it carried
Call(op, arg, token) == [op |-> op, arg |-> arg, token |-> token]

\* identifier 0: the remote answer carries no identifier
Contact(id, name, email) == [contactID |-> id, name |-> name, email |-> email]

None == [found |-> FALSE]

Some(c) == [found |-> TRUE, contact |-> c]

\* name.includes(part)
Contains(name, part) ==
    \E k \in 0..(Len(name) - Len(part)) :
        SubSeq(name, k + 1, k + Len(part)) = part

\* how the remote organisation answers the calls of one operation
Answers(find, create, submit) ==
    [find |-> find, create |-> create, submit |-> submit]

RemoteAnswers ==
    {Answers(find, create, submit) :
        find \in BOOLEAN,
        create \in {"contact", "no contact", "no identifier"},
        submit \in BOOLEAN}

\* findContact(name): the first match, or None; a failure of the search is
\* treated as None
findContact(cs, name, answers) ==
    LET matches == {k \in 1..Len(cs) : Contains(cs[k].name, name)}
        first == CHOOSE k \in matches : \A j \in matches : k <= j
    IN  IF answers.find /\ matches # {} THEN Some(cs[first]) ELSE None

\* createContact(name, email): CreateError when the response has no contact
createContact(cs, name, email, answers) ==
    IF answers.create = "no contact"
    THEN [outcome |-> Threw("CreateError"), contacts |-> cs]
    ELSE LET c == Contact(IF answers.create = "contact"
                          THEN Len(cs) + 1 ELSE 0, name, email)
         IN  [outcome |-> Returned(c), contacts |-> Append(cs, c)]

\* the quote identifier the remote organisation hands out next
NextQuoteId(qs) ==
    CHOOSE q \in QuoteIds :
        /\ qs[q] = "nonexistent"
        /\ \A r \in QuoteIds : qs[r] = "nonexistent" => q <= r

\* createQuote(request): what it returns or throws, the calls it made, and
\* the contacts and quotes it leaves
createQuote(cs, qs, request, token, answers) ==
    LET name == request.contactName.str
        email == request.contactEmail
        search == <<Call("findContact", name, token)>>
        found == findContact(cs, name, answers)
        made == createContact(cs, name, email, answers)
        resolved == IF found.found THEN search
                    ELSE Append(search, Call("createContact", name, token))
        contact == IF found.found THEN found.contact ELSE made.outcome.result
        cs2 == IF found.found THEN cs ELSE made.contacts
        q == NextQuoteId(qs)
    IN  IF ~found.found /\ made.outcome.threw
        THEN [outcome |-> Threw("CreateError"), calls |-> resolved,
              contacts |-> cs, quotes |-> qs]
        ELSE IF contact.contactID = 0
        THEN [outcome |-> Threw("InvalidState"), calls |-> resolved,
              contacts |-> cs2, quotes |-> qs]
        ELSE IF ~answers.submit
        THEN [outcome |-> Threw("CreateError"),
              calls |-> Append(resolved, Call("createQuote", request, token)),
              contacts |-> cs2, quotes |-> qs]
        ELSE [outcome |-> Returned([quoteID |-> q, quoteNumber |-> q,
                                    url |-> <<"quotes", q>>]),
              calls |-> Append(resolved, Call("createQuote", request, token)),
              contacts |-> cs2, quotes |-> [qs EXCEPT ![q] = "draft"]]

\* getQuote(id): the quote, or None
getQuote(qs, id) ==
    IF qs[id] = "nonexistent" THEN None
    ELSE Some([quoteID |-> id, status |-> qs[id]])

\* markQuoteAsSent(id): fetches the quote, NotFound when there is none,
\* sets its status to sent and submits the update
markQuoteAsSent(qs, id, token, answers) ==
    LET fetch == <<Call("getQuote", id, token)>>
    IN  IF ~getQuote(qs, id).found
        THEN [outcome |-> Threw("NotFound"), calls |-> fetch, quotes |-> qs]
        ELSE IF ~answers.submit
        THEN [outcome |-> Threw("UpdateError"),
              calls |-> Append(fetch, Call("updateQuote", id, token)),
              quotes |-> qs]
        ELSE [outcome |-> Returned("sent"),
              calls |-> Append(fetch, Call("updateQuote", id, token)),
              quotes |-> [qs EXCEPT ![id] = "sent"]]

----------------------------------------------------------------------------
(* The quote script: testQuoteCreation *)

MaxExpiryDistance == 3600

\* how far from now the stored token expires
ExpiryOffsets ==
    {-MaxExpiryDistance, -1, 0, 1, RefreshMargin - 1, RefreshMargin,
     RefreshMargin + 1, MaxExpiryDistance}

\* the sample of the script, its texts shortened
SampleQuote ==
    Request(Str(<<"T", "e", "s", "t">>),
            Str(<<"t", "@", "e", ".", "c">>),
            Items(<<Item(Str(<<"W">>), Num(1), Num(2500), Undefined),
                    Item(Str(<<"H">>), Num(1), Num(250), Undefined),
                    Item(Str(<<"T">>), Num(2), Num(150), Undefined)>>),
            Str(<<"T", "-", "1">>), Str(<<"P">>), Str(Today))

RunRequests ==
    {SampleQuote, AcmeRequest,
     Request(Str(<<" ">>), Undefined,
             Items(<<Item(Str(<<"A">>), Num(0), Num(1), Undefined)>>),
             Undefined, Undefined, Undefined),
     Request(Str(<<"A">>), Undefined, Items(<<>>),
             Undefined, Undefined, Undefined),
     Request(Str(<<" ", "A">>), Undefined,
             Items(<<Item(Str(<<"A", " ">>), NaN, Num(1), Undefined)>>),
             Undefined, Undefined, Undefined)}

\* the contacts the remote organisation has when the script starts
RunContacts ==
    {<<>>,
     <<Contact(1, <<"A", "c", "m", "e", " ", "L", "t", "d">>, Undefined)>>,
     <<Contact(1, <<"B">>, Undefined),
       Contact(2, <<"T", "e", "s", "t", "s">>, Undefined)>>}

InitRun ==
    /\ data \in RunRequests
    /\ today = Today
    /\ permuted = <<>>
    /\ value = NoValue
    /\ NothingRun
    /\ pc = "validate"
    /\ now \in {MaxExpiryDistance, 2 * MaxExpiryDistance}
    /\ envTenant \in {"none", "tenant-env"}
    /\ file \in {NoFile} \cup
          {StoredFile(Credentials("access-1", "refresh-1", now + d,
                                  "tenant-1", 0)) : d \in ExpiryOffsets}
    /\ fileAtStart = file
    /\ service = NoService
    /\ refreshCalls = 0
    /\ createCalls = 0
    /\ initialized = NotRun
    /\ created = NotRun
    /\ sent = NotRun
    /\ calls = <<>>
    /\ contacts \in RunContacts
    /\ quotes = NoQuotes
    /\ NoAuth

\* step 1: validateQuoteData(sampleQuote); exit(1) when it is not valid
RunValidate ==
    /\ pc = "validate"
    /\ validation' = Returned(validateQuoteData(data))
    /\ pc' = IF validateQuoteData(data).valid THEN "connect" ELSE "exit1"
    /\ UNCHANGED <<inputVars, mapVars, totalsVars, parseVars, now, envTenant,
                   file, fileAtStart, service, refreshCalls, createCalls,
                   initialized, gatewayVars, authVars>>

\* An initialize() that is tried again after it failed.
RunInitializeRetrying ==
    /\ pc = "connect"
    /\ \E remoteOk \in BOOLEAN :
          LET r == initialize(file, envTenant, now, remoteOk)
          IN  /\ file' = r.file
              /\ service' = r.service
              /\ refreshCalls' = refreshCalls + r.refreshes
              /\ initialized' = r.outcome
              /\ pc' = IF r.outcome.threw /\ refreshCalls = 0
                       THEN "connect"
                       ELSE IF r.outcome.threw THEN "exit1" ELSE "create"
    /\ UNCHANGED <<inputVars, validation, mapVars, totalsVars, parseVars, now,
                   envTenant, fileAtStart, createCalls, gatewayVars, authVars>>

\* An initialize() whose failed refresh still stamps the stored expiry.
RunInitializeStamping ==
    /\ pc = "connect"
    /\ \E remoteOk \in BOOLEAN :
          LET r == initialize(file, envTenant, now, remoteOk)
          IN  /\ file' = IF r.outcome.threw /\ r.refreshes = 1
                         THEN StoredFile([file.credentials EXCEPT
                                            !.expiry = now + TokenLifetime,
                                            !.updatedAt = now])
                         ELSE r.file
              /\ service' = r.service
              /\ refreshCalls' = refreshCalls + r.refreshes
              /\ initialized' = r.outcome
              /\ pc' = IF r.outcome.threw THEN "exit1" ELSE "create"
    /\ UNCHANGED <<inputVars, validation, mapVars, totalsVars, parseVars, now,
                   envTenant, fileAtStart, createCalls, gatewayVars, authVars>>

\* step 3: new XeroService(), await initialize(); exit(1) when it throws
RunInitialize ==
    /\ pc = "connect"
    /\ \E remoteOk \in BOOLEAN :
          LET r == initialize(file, envTenant, now, remoteOk)
          IN  /\ file' = r.file
              /\ service' = r.service
              /\ refreshCalls' = refreshCalls + r.refreshes
              /\ initialized' = r.outcome
              /\ pc' = IF r.outcome.threw THEN "exit1" ELSE "create"
    /\ UNCHANGED <<inputVars, validation, mapVars, totalsVars, parseVars, now,
                   envTenant, fileAtStart, createCalls, gatewayVars, authVars>>

\* A step 4 that hands sampleQuote itself to createQuote.
RunCreateQuoteUnmapped ==
    /\ pc = "create"
    /\ quoteData' = toQuoteData(data, today)
    /\ IF toQuoteData(data, today).threw
       THEN /\ pc' = "exit1"
            /\ UNCHANGED <<createCalls, gatewayVars>>
       ELSE \E answers \in RemoteAnswers :
               LET r == createQuote(contacts, quotes, data,
                                    service.tokenSet.accessToken, answers)
               IN  /\ createCalls' = createCalls + 1
                   /\ created' = r.outcome
                   /\ calls' = calls \o r.calls
                   /\ contacts' = r.contacts
                   /\ quotes' = r.quotes
                   /\ pc' = IF r.outcome.threw THEN "exit1" ELSE "finish"
                   /\ UNCHANGED sent
    /\ UNCHANGED <<inputVars, validation, quoteData2, totalsVars, parseVars,
                   now, envTenant, file, fileAtStart, service, refreshCalls,
                   initialized, authVars>>

\* step 4: toQuoteData(sampleQuote), await createQuote(quoteData); exit(1)
\* when either throws
RunCreateQuote ==
    /\ pc = "create"
    /\ quoteData' = toQuoteData(data, today)
    /\ IF toQuoteData(data, today).threw
       THEN /\ pc' = "exit1"
            /\ UNCHANGED <<createCalls, gatewayVars>>
       ELSE \E answers \in RemoteAnswers :
               LET r == createQuote(contacts, quotes,
                                    toQuoteData(data, today).result,
                                    service.tokenSet.accessToken, answers)
               IN  /\ createCalls' = createCalls + 1
                   /\ created' = r.outcome
                   /\ calls' = calls \o r.calls
                   /\ contacts' = r.contacts
                   /\ quotes' = r.quotes
                   /\ pc' = IF r.outcome.threw THEN "exit1" ELSE "finish"
                   /\ UNCHANGED sent
    /\ UNCHANGED <<inputVars, validation, quoteData2, totalsVars, parseVars,
                   now, envTenant, file, fileAtStart, service, refreshCalls,
                   initialized, authVars>>

\* the promise of testQuoteCreation resolves: exit(0)
RunFinish ==
    /\ pc = "finish"
    /\ pc' = "exit0"
    /\ UNCHANGED <<inputVars, validation, mapVars, totalsVars, parseVars, now,
                   envTenant, file, fileAtStart, service, refreshCalls,
                   createCalls, initialized, gatewayVars, authVars>>

NextRun == RunValidate \/ RunInitialize \/ RunCreateQuote \/ RunFinish

SpecRun == InitRun /\ [][NextRun]_vars

----------------------------------------------------------------------------
(* Specification: a caller of XeroService that initializes it, then creates *)
(* quotes and marks quotes as sent, in any order                            *)

\* the caller stops once this many remote calls have been made
MaxCalls == 5

ApiRequests == {SampleQuote, AcmeRequest}

InitGateway ==
    /\ data \in ApiRequests
    /\ today = Today
    /\ permuted = <<>>
    /\ value = NoValue
    /\ NothingRun
    /\ pc = "connect"
    /\ now = MaxExpiryDistance
    /\ envTenant = "none"
    /\ file \in {StoredFile(Credentials("access-1", "refresh-1", now + d,
                                        "tenant-1", 0)) :
                    d \in {-1, MaxExpiryDistance}}
    /\ fileAtStart = file
    /\ service = NoService
    /\ refreshCalls = 0
    /\ createCalls = 0
    /\ initialized = NotRun
    /\ created = NotRun
    /\ sent = NotRun
    /\ calls = <<>>
    /\ contacts \in RunContacts
    /\ quotes = NoQuotes
    /\ NoAuth

\* const xero = new XeroService(); await xero.initialize()
ApiInitialize ==
    /\ pc = "connect"
    /\ \E remoteOk \in BOOLEAN :
          LET r == initialize(file, envTenant, now, remoteOk)
          IN  /\ file' = r.file
              /\ service' = r.service
              /\ refreshCalls' = refreshCalls + r.refreshes
              /\ initialized' = r.outcome
              /\ pc' = IF r.outcome.threw THEN "failed" ELSE "api"
    /\ UNCHANGED <<inputVars, validation, mapVars, totalsVars, parseVars, now,
                   envTenant, fileAtStart, createCalls, gatewayVars, authVars>>

\* await xero.createQuote(toQuoteData(input))
ApiCreateQuote ==
    /\ pc = "api"
    /\ Len(calls) < MaxCalls
    /\ \E q \in QuoteIds : quotes[q] = "nonexistent"
    /\ quoteData' = toQuoteData(data, today)
    /\ \E answers \in RemoteAnswers :
          LET r == createQuote(contacts, quotes,
                               toQuoteData(data, today).result,
                               service.tokenSet.accessToken, answers)
          IN  /\ createCalls' = createCalls + 1
              /\ created' = r.outcome
              /\ calls' = calls \o r.calls
              /\ contacts' = r.contacts
              /\ quotes' = r.quotes
    /\ UNCHANGED <<inputVars, validation, quoteData2, totalsVars, parseVars,
                   pc, now, envTenant, file, fileAtStart, service,
                   refreshCalls, initialized, sent, authVars>>

\* A markQuoteAsSent that submits the update without fetching the quote.
ApiMarkQuoteAsSentUnfetched ==
    /\ pc = "api"
    /\ Len(calls) < MaxCalls
    /\ \E id \in QuoteIds :
          /\ sent' = Returned("sent")
          /\ calls' = Append(calls, Call("updateQuote", id,
                                         service.tokenSet.accessToken))
          /\ quotes' = [quotes EXCEPT ![id] = "sent"]
    /\ UNCHANGED <<inputVars, validation, mapVars, totalsVars, parseVars,
                   pc, now, envTenant, file, fileAtStart, service,
                   refreshCalls, createCalls, initialized, created, contacts,
                   authVars>>

\* await xero.markQuoteAsSent(quoteID)
ApiMarkQuoteAsSent ==
    /\ pc = "api"
    /\ Len(calls) < MaxCalls
    /\ \E id \in QuoteIds, answers \in RemoteAnswers :
          LET r == markQuoteAsSent(quotes, id, service.tokenSet.accessToken,
                                   answers)
          IN  /\ sent' = r.outcome
              /\ calls' = calls \o r.calls
              /\ quotes' = r.quotes
    /\ UNCHANGED <<inputVars, validation, mapVars, totalsVars, parseVars,
                   pc, now, envTenant, file, fileAtStart, service,
                   refreshCalls, createCalls, initialized, created, contacts,
                   authVars>>

NextGateway == ApiInitialize \/ ApiCreateQuote \/ ApiMarkQuoteAsSent

SpecGateway == InitGateway /\ [][NextGateway]_vars

----------------------------------------------------------------------------
(* The OAuth helper: the check of the environment, startAuthFlow and the   *)
(* request handler of its callback server.  The handler is an async        *)
(* function: it runs up to its next await, and the handlers of other       *)
(* requests may run before it resumes.  resolve() and reject() settle the  *)
(* promise of startAuthFlow, whose reactions call process.exit before any  *)
(* other callback runs.                                                    *)

\* a variable of the environment: not set, set to '', or set to a value
EnvValues == {"unset", "empty", "set"}

\* A check that looks at the secret alone.
ConfigMissingSecretOnly(e) == e.clientSecret # "set"

\* !CLIENT_ID || !CLIENT_SECRET
ConfigMissing(e) == e.clientId # "set" \/ e.clientSecret # "set"

\* what Xero may answer to updateTenants(): nothing, or a list of tenants
TenantLists ==
    {<<>>, <<"tenant-1">>, <<"tenant-2", "tenant-1">>}

LastTenant(tenants) == tenants[Len(tenants)]

\* tenants[0].tenantId
FirstTenant(tenants) == tenants[1]

\* the token set that apiCallback returned to the handler of request r
TokenSetOf(r) ==
    [access_token |-> <<"access", r>>, refresh_token |-> <<"refresh", r>>,
     expires_at |-> now + TokenLifetime]

\* the credentials object of saveTokens(tokenSet, tenantId)
SavedCredentials(tokenSet, tenantId) ==
    Credentials(tokenSet.access_token, tokenSet.refresh_token,
                tokenSet.expires_at, tenantId, now)

\* the handler answers request r and, when closing, closes the server and
\* settles the promise: process.exit(code)
Answer(r, status, exit) ==
    /\ requests' = [requests EXCEPT ![r].state = "done", ![r].status = status]
    /\ server' = "closed"
    /\ pc' = exit

InitAuth ==
    /\ data = AcmeRequest
    /\ today = Today
    /\ permuted = <<>>
    /\ value = NoValue
    /\ NothingRun
    /\ pc = "start"
    /\ now = MaxExpiryDistance
    /\ envTenant = "none"
    /\ file \in {NoFile,
                 StoredFile(Credentials("access-0", "refresh-0", 0,
                                        "tenant-0", 0))}
    /\ fileAtStart = file
    /\ service = NoService
    /\ refreshCalls = 0
    /\ createCalls = 0
    /\ initialized = NotRun
    /\ created = NotRun
    /\ sent = NotRun
    /\ calls = <<>>
    /\ contacts = <<>>
    /\ quotes = NoQuotes
    /\ env \in [clientId : EnvValues, clientSecret : EnvValues]
    /\ client = FALSE
    /\ server = "none"
    /\ requests = [r \in RequestIds |-> Unsent]
    /\ writes = 0
    /\ netCalls = <<>>

\* the top of the script: exit(1) when the client id or the secret is
\* missing, new XeroClient(...) otherwise
AuthConfigure ==
    /\ pc = "start"
    /\ IF ConfigMissing(env)
       THEN pc' = "exit1" /\ UNCHANGED client
       ELSE pc' = "flow" /\ client' = TRUE
    /\ UNCHANGED <<outsideAuth, file, env, server, requests, writes, netCalls>>

\* startAuthFlow up to the first request: buildConsentUrl, createServer,
\* listen(3000); a throwing buildConsentUrl or an 'error' of the server
\* ends the process with status 1
AuthListen ==
    /\ pc = "flow"
    /\ \E listening \in BOOLEAN :
          IF listening
          THEN pc' = "listening" /\ server' = "listening"
          ELSE pc' = "exit1" /\ UNCHANGED server
    /\ UNCHANGED <<outsideAuth, file, env, client, requests, writes, netCalls>>

\* a request arrives: the handler runs up to its first await.  Any path
\* but /callback is answered 404 and the server stays open; /callback
\* without a code is answered 400; otherwise the exchange of the code for
\* tokens is started.
HandleRequest(r) ==
    /\ pc = "listening"
    /\ requests[r].state = "unsent"
    /\ \A j \in RequestIds : j < r => requests[j].state # "unsent"
    /\ \E path \in {"/callback", "/"}, code \in {"absent", "empty", "present"} :
          LET req == [requests[r] EXCEPT !.path = path, !.code = code]
          IN  IF path # "/callback"
              THEN /\ requests' = [requests EXCEPT
                                     ![r] = [req EXCEPT !.state = "done",
                                                        !.status = 404]]
                   /\ UNCHANGED <<pc, server, netCalls>>
              ELSE IF code # "present"
              THEN /\ requests' = [requests EXCEPT
                                     ![r] = [req EXCEPT !.state = "done",
                                                        !.status = 400]]
                   /\ server' = "closed"
                   /\ pc' = "exit1"
                   /\ UNCHANGED netCalls
              ELSE /\ requests' = [requests EXCEPT
                                     ![r] = [req EXCEPT !.state = "exchanging"]]
                   /\ netCalls' = Append(netCalls,
                                         [op |-> "apiCallback", request |-> r])
                   /\ UNCHANGED <<pc, server>>
    /\ UNCHANGED <<outsideAuth, file, env, client, writes>>

\* await xero.apiCallback(req.url) settles: on success the lookup of the
\* tenants is started, on failure the catch block answers 500
ApiCallbackSettled(r) ==
    /\ pc = "listening"
    /\ requests[r].state = "exchanging"
    /\ \E ok \in BOOLEAN :
          IF ok
          THEN /\ requests' = [requests EXCEPT ![r].state = "tenants"]
               /\ netCalls' = Append(netCalls,
                                     [op |-> "updateTenants", request |-> r])
               /\ UNCHANGED <<pc, server>>
          ELSE /\ Answer(r, 500, "exit1")
               /\ UNCHANGED netCalls
    /\ UNCHANGED <<outsideAuth, file, env, client, writes>>

\* await xero.updateTenants() settles: with a first tenant saveTokens calls
\* fs.writeFile; a failure or an empty list is answered 500
UpdateTenantsSettled(r) ==
    /\ pc = "listening"
    /\ requests[r].state = "tenants"
    /\ \E ok \in BOOLEAN, tenants \in TenantLists :
          IF ok /\ tenants # <<>>
          THEN /\ requests' = [requests EXCEPT ![r].state = "writing",
                                               ![r].tenants = tenants]
               /\ UNCHANGED <<pc, server>>
          ELSE Answer(r, 500, "exit1")
    /\ UNCHANGED <<outsideAuth, file, env, client, writes, netCalls>>

\* the write that fs.writeFile started is carried out, or fails; the
\* handler resumes later
WriteFileCompleted(r) ==
    /\ pc = "listening"
    /\ requests[r].state = "writing"
    /\ \E ok \in BOOLEAN :
          IF ok
          THEN /\ file' = StoredFile(SavedCredentials(
                                     TokenSetOf(r),
                                     FirstTenant(requests[r].tenants)))
               /\ writes' = writes + 1
               /\ requests' = [requests EXCEPT ![r].state = "written"]
          ELSE /\ requests' = [requests EXCEPT ![r].state = "write failed"]
               /\ UNCHANGED <<file, writes>>
    /\ UNCHANGED <<outsideAuth, pc, env, client, server, netCalls>>

\* await saveTokens(...) settles: the success page, server.close() and
\* resolve(), or the catch block with 500
SaveTokensSettled(r) ==
    /\ pc = "listening"
    /\ requests[r].state \in {"written", "write failed"}
    /\ IF requests[r].state = "written"
       THEN Answer(r, 200, "exit0")
       ELSE Answer(r, 500, "exit1")
    /\ UNCHANGED <<outsideAuth, file, env, client, writes, netCalls>>

NextAuth ==
    \/ AuthConfigure
    \/ AuthListen
    \/ \E r \in RequestIds :
          \/ HandleRequest(r)
          \/ ApiCallbackSettled(r)
          \/ UpdateTenantsSettled(r)
          \/ WriteFileCompleted(r)
          \/ SaveTokensSettled(r)

SpecAuth == InitAuth /\ [][NextAuth]_vars

----------------------------------------------------------------------------
(* Properties of the token lifecycle *)

\* initialize() has been called in this run
InitializeCalled ==
    \/ pc \in {"create", "finish", "exit0"}
    \/ pc = "exit1" /\ validation.result.valid

\* C10: initialize() invokes refresh() exactly when the current time is at
\* or past the stored expiry minus 5 minutes (so with expiry = now - 1s it
\* does, with expiry = now + 1h it does not), and at most one refresh is
\* attempted per run.
C10_RefreshExactlyWhenDue ==
    /\ refreshCalls <= 1
    /\ (InitializeCalled /\ fileAtStart.present) =>
          LET expiry == fileAtStart.credentials.expiry
          IN  /\ (refreshCalls = 1) <=> (now >= expiry - 5 * 60)
              /\ expiry = now - 1 => refreshCalls = 1
              /\ expiry = now + 60 * 60 => refreshCalls = 0

C10_Witness ==
    /\ InitializeCalled
    /\ fileAtStart.present
    /\ fileAtStart.credentials.expiry = now + 5 * 60
    /\ refreshCalls = 1
    /\ file # fileAtStart

\* refresh() was invoked and failed
RefreshFailed ==
    initialized.done /\ initialized.threw /\ initialized.error = "AuthError"

\* the expiry a token was issued with: the stored token came with the
\* stored expiry, the token of a refresh with the expiry of that refresh
IssuedExpiry(token) ==
    IF token = fileAtStart.credentials.accessToken
    THEN fileAtStart.credentials.expiry
    ELSE now + TokenLifetime

\* C11: when refresh() fails, the credentials on disk are exactly what they
\* were before the call (every field), the run ends with the authorization
\* error, no second refresh and no request to the remote API follows; and
\* in every state the stored expiry is the one the stored access token was
\* issued with, which is also the token every request carries.
C11_FailedRefreshLeavesCredentials ==
    /\ RefreshFailed =>
          /\ file = fileAtStart
          /\ pc = "exit1"
          /\ refreshCalls = 1
          /\ createCalls = 0
          /\ calls = <<>>
    /\ file.present =>
          /\ file.credentials.expiry =
                IssuedExpiry(file.credentials.accessToken)
          /\ \A k \in 1..Len(calls) :
                calls[k].token = file.credentials.accessToken

C11_Witness ==
    /\ RefreshFailed
    /\ fileAtStart.present
    /\ fileAtStart.credentials.expiry = now - 1
    /\ file = fileAtStart
    /\ pc = "exit1"

----------------------------------------------------------------------------
(* Properties of the gateway *)

\* the calls this step added to the log
NewCalls == SubSeq(calls', Len(calls) + 1, Len(calls'))

\* this step is markQuoteAsSent(id)
MarksAsSent(id) ==
    /\ NewCalls # <<>>
    /\ NewCalls[1].op = "getQuote"
    /\ NewCalls[1].arg = id

\* this step is a createQuote that returned quote q
Creates(q) ==
    /\ createCalls' = createCalls + 1
    /\ Ok(created')
    /\ created'.result.quoteID = q

\* what one step may do to quote q
QuoteStep(q) ==
    \/ quotes'[q] = quotes[q]
    \/ quotes[q] = "nonexistent" /\ quotes'[q] = "draft" /\ Creates(q)
    \/ quotes[q] = "draft" /\ quotes'[q] = "sent" /\ MarksAsSent(q) /\ Ok(sent')

\* C12: a quote only moves nonexistent -> draft, by createQuote, and
\* draft -> sent, by markQuoteAsSent; a createQuote that returns leaves the
\* quote it names in draft status; markQuoteAsSent on an identifier with no
\* quote throws NotFound and changes no quote and no contact; no step moves
\* a quote to another status or back.
C12_QuoteTransitions ==
    [][/\ \A q \in QuoteIds :
             /\ QuoteStep(q)
             /\ Creates(q) => quotes[q] = "nonexistent" /\ quotes'[q] = "draft"
             /\ (MarksAsSent(q) /\ quotes[q] = "nonexistent") =>
                   /\ sent' = Threw("NotFound")
                   /\ quotes' = quotes
                   /\ contacts' = contacts
       /\ \A q \in QuoteIds : quotes'[q] \in {"nonexistent", "draft", "sent"}
      ]_vars

C12_Witness ==
    /\ quotes[1] = "sent"
    /\ quotes[2] = "nonexistent"
    /\ sent = Threw("NotFound")
    /\ Ok(created)
    /\ created.result.quoteID = 1

----------------------------------------------------------------------------
(* Properties of the OAuth helper *)

\* request r went to /callback with an authorization code
CarriesCode(r) ==
    requests[r].path = "/callback" /\ requests[r].code = "present"

\* the requests whose code the handler has handed to the token exchange
Exchanged == {r \in RequestIds : CarriesCode(r) /\ requests[r].state # "unsent"}

\* the handler has answered request r
Answered(r) == requests[r].state = "done"

\* C13: over any interleaving of incoming requests at most one request to
\* /callback is processed (token exchange, tenant lookup, credential write),
\* the server is closed once that request has been answered, and
\* credentials.json is written at most once per run of the flow.
C13_OneCallbackProcessed ==
    /\ Cardinality(Exchanged) <= 1
    /\ writes <= 1
    /\ \A r \in RequestIds :
          (requests[r].path = "/callback" /\ Answered(r)) => server = "closed"

\* the client id or the client secret is absent from the environment
ConfigAbsent == env.clientId = "unset" \/ env.clientSecret = "unset"

\* C14: when the client id or the client secret is absent, the program
\* stops with status 1 in its first step and nothing else ever happens: no
\* XeroClient is built, no server listens, no request is handled, no call
\* to Xero is made and credentials.json is not written.
C14_MissingConfigIsFatal ==
    ConfigAbsent =>
        /\ pc \in {"start", "exit1"}
        /\ ~client
        /\ server = "none"
        /\ \A r \in RequestIds : requests[r] = Unsent
        /\ netCalls = <<>>
        /\ writes = 0
        /\ file = fileAtStart

C14_Witness ==
    /\ env.clientId = "unset"
    /\ env.clientSecret = "set"
    /\ pc = "exit1"
    /\ fileAtStart.present

\* request r has had its credentials written to credentials.json
Wrote(r) ==
    \/ requests[r].state = "written"
    \/ Answered(r) /\ requests[r].status = 200

\* C15: credentials.json is written only for a request to /callback that
\* carries a code, whose exchange succeeded and whose tenant list is not
\* empty, and the stored tenant is the first of that list; another path is
\* answered 404, /callback without a code 400, a failed exchange or tenant
\* lookup or an empty tenant list 500, and none of these writes the file;
\* the flow exits with success only after the file has been written.
C15_OnlyGoodCallbackWrites ==
    /\ \A r \in RequestIds :
          /\ Answered(r) /\ requests[r].path # "/callback" =>
                requests[r].status = 404
          /\ Answered(r) /\ requests[r].path = "/callback"
                         /\ requests[r].code # "present" =>
                requests[r].status = 400
          /\ Answered(r) /\ CarriesCode(r) => requests[r].status \in {200, 500}
          /\ Wrote(r) =>
                /\ CarriesCode(r)
                /\ requests[r].tenants # <<>>
                /\ \E k \in 1..Len(netCalls) :
                      netCalls[k] = [op |-> "updateTenants", request |-> r]
    /\ writes = Cardinality({r \in RequestIds : Wrote(r)})
    /\ writes = 0 => file = fileAtStart
    /\ file # fileAtStart =>
          \E r \in RequestIds :
             /\ Wrote(r)
             /\ file.credentials.tenantId = requests[r].tenants[1]
             /\ file.credentials.accessToken = TokenSetOf(r).access_token
    /\ pc = "exit0" =>
          /\ writes >= 1
          /\ file.present
          /\ file # fileAtStart
          /\ \E r \in RequestIds : Answered(r) /\ requests[r].status = 200

C15_Witness ==
    /\ pc = "exit0"
    /\ requests[1].status = 404
    /\ requests[2].status = 200
    /\ requests[2].tenants = <<"tenant-2", "tenant-1">>
    /\ file.credentials.tenantId = "tenant-2"
    /\ fileAtStart.present

----------------------------------------------------------------------------
(* Properties of the quote script *)

\* the remote calls that look up or create a contact or create a quote
ContactOrQuoteCalls ==
    {k \in 1..Len(calls) :
        calls[k].op \in {"findContact", "createContact", "createQuote"}}

\* C16: createQuote is called only after validateQuoteData returned valid
\* and initialize() returned, with the output of toQuoteData as its
\* argument; when validation or initialize() fails the run exits with
\* status 1 and no contact or quote call has been made; createQuote is
\* called at most once per run.
C16_CreateQuoteLast ==
    /\ createCalls <= 1
    /\ createCalls = 1 =>
          /\ Ok(validation) /\ validation.result.valid
          /\ Ok(initialized)
          /\ quoteData = toQuoteData(data, today)
          /\ Ok(quoteData)
          /\ calls # <<>>
          /\ calls[1].op = "findContact"
          /\ calls[1].arg = quoteData.result.contactName.str
          /\ \A k \in 1..Len(calls) :
                calls[k].op = "createQuote" => calls[k].arg = quoteData.result
    /\ createCalls = 0 => ContactOrQuoteCalls = {}
    /\ (Ok(validation) /\ ~validation.result.valid) =>
          /\ pc = "exit1"
          /\ ~initialized.done
          /\ createCalls = 0
    /\ (initialized.done /\ initialized.threw) =>
          /\ pc = "exit1"
          /\ createCalls = 0

C16_Witness ==
    /\ pc = "exit0"
    /\ createCalls = 1
    /\ data = SampleQuote
    /\ Len(calls) = 3
    /\ calls[3].op = "createQuote"
    /\ quotes[1] = "draft"
    /\ refreshCalls = 1

\* the item has a non-empty trimmed description, a quantity > 0, a unit
\* amount >= 0 and a non-empty account code
NormalItem(item) ==
    /\ item.description.defined
    /\ item.description.str # <<>>
    /\ Trim(item.description.str) = item.description.str
    /\ item.quantity.t = "number" /\ item.quantity.m > 0
    /\ item.unitAmount.t = "number" /\ item.unitAmount.m >= 0
    /\ item.accountCode.defined /\ item.accountCode.str # <<>>

NormalRequest(d) ==
    /\ d.contactName.defined
    /\ d.contactName.str # <<>>
    /\ Trim(d.contactName.str) = d.contactName.str
    /\ d.lineItems.defined
    /\ Len(d.lineItems.items) >= 1
    /\ \A k \in 1..Len(d.lineItems.items) : NormalItem(d.lineItems.items[k])
    /\ d.date.defined
    /\ DateShape(d.date.str)

\* C17: toQuoteData preserves validity: when validateQuoteData(r) is valid,
\* validateQuoteData(toQuoteData(r)) is valid too; so the data handed to
\* createQuote has a non-empty trimmed contact name, at least one line
\* item, non-empty trimmed descriptions, quantities > 0, unit amounts >= 0,
\* a non-empty account code on every item and a date of shape YYYY-MM-DD.
C17_NormalizedDataIsValid ==
    /\ validateQuoteData(data).valid =>
          /\ ~toQuoteData(data, today).threw
          /\ validateQuoteData(toQuoteData(data, today).result).valid
    /\ createCalls = 1 => NormalRequest(quoteData.result)

====
